---- MODULE Spec2Model ----
(***************************************************************************)
(* Voice recorder (vedangrajoriya/voice-recorder): the client-side capture *)
(* session of App.tsx, the recordings list playback of Dashboard.tsx and   *)
(* the persistence gateway of AuthContext.tsx with SaveRecordingModal.tsx. *)
(*                                                                         *)
(* Every handler is one action.  React state written by a handler is       *)
(* committed, and the effects of the commit are run, before the next       *)
(* event is handled, so a handler and the effect cleanups it triggers are  *)
(* one step.  An await splits a handler into the step before it and the    *)
(* continuation after it.                                                  *)
(*                                                                         *)
(* Clock readings are integers in milliseconds; recordingTime and the      *)
(* durations are seconds in fixed point, in thousandths of a second.       *)
(***************************************************************************)
EXTENDS Integers, Sequences, FiniteSets, TLC

(* ------------------------------ bounds -------------------------------- *)
MaxSessions == 2
\* Periods of the interval (TimerPeriod) the clock advances.
MaxTime == 2
MaxItems == 3
MaxRows == 2
MaxFrames == 6

\* Calls of the auth context that run at the same time.
MaxCalls == 2

\* Elements of one item that unmounted Dashboards have left playing.
MaxOrphans == 1

\* SaveRecordingModal instances mounted, one after the other.
MaxModals == 3

(* ------------------------- recorder (App.tsx) -------------------------- *)
VARIABLES
  isRecording,       \* useState(false)                       App.tsx:10
  audioBlob,         \* useState<Blob|null>; NoBlob is null   App.tsx:11
  audioUrl,          \* useState<string|null>; 0 is null      App.tsx:12
  showRecorder,      \* App.tsx:13
  showSaveModal,     \* App.tsx:14
  recordingTime,     \* App.tsx:15 (thousandths of a second)
  mediaRecorderRef,  \* session whose MediaRecorder the ref holds, 0 is null
  audioChunksRef,    \* Blob[] of the chunks pushed by ondataavailable
  timerRef,          \* session whose interval handle the ref holds, 0 is null
  sessions,          \* per startRecording call: recorder, stream, interval
  nSessions,         \* number of startRecording calls made so far
  now,               \* Date.now(), and now() of the database
  urls,              \* object URLs created and not revoked
  nUrls,             \* number of object URLs created so far
  artifacts,         \* history: one entry per run of mediaRecorder.onstop
  alerts             \* number of alert() dialogs shown by startRecording

recVars == << isRecording, audioBlob, audioUrl, showRecorder, showSaveModal,
              recordingTime, mediaRecorderRef, audioChunksRef, timerRef,
              sessions, nSessions, now, urls, nUrls, artifacts, alerts >>

(* ------------------- recordings list (Dashboard.tsx) ------------------- *)
VARIABLES
  currentlyPlaying,  \* useState<string|null>; 0 is null     Dashboard.tsx:13
  audioElements,     \* ids that have an element in the map  Dashboard.tsx:14
  media,             \* per id: the HTMLAudioElement created for it
  orphans            \* per id: elements of unmounted Dashboards still playing

dashVars == << currentlyPlaying, audioElements, media, orphans >>

(* -------------------- persistence (AuthContext.tsx) -------------------- *)
VARIABLES
  user,              \* useState<User|null|undefined>; 0 is no user
  recordings,        \* useState<Recording[]>([])
  authUid,           \* auth.uid() of the backend session, 0 is signed out
  profiles,          \* ids of the rows of table users
  rows,              \* table recordings
  objects,           \* keys of the objects in the storage bucket recordings
  nRows,             \* number of rows inserted so far (row ids)
  loads,             \* the running loadUserData calls
  saves,             \* the running saveRecording calls
  saveResult,        \* how the saveRecording call that ended last ended
  dels,              \* the running deleteRecording calls
  logouts,           \* number of running logout calls
  lastOp             \* the handler or continuation that ran last, when a
                     \* property has to tell it from the others

perVars == << user, recordings, authUid, profiles, rows, objects, nRows,
              loads, saves, saveResult, dels, logouts, lastOp >>

(* ------------- the save modal (SaveRecordingModal.tsx) ----------------- *)
VARIABLES
  modalOpen,         \* a SaveRecordingModal is mounted
  duration,          \* its duration prop
  title,             \* its useState title
  isSaving,          \* its useState isSaving
  error,             \* its useState error
  nModals            \* number of SaveRecordingModal instances mounted so far

modalVars == << modalOpen, duration, title, isSaving, error, nModals >>

\* The live waveform of WaveformVisualizer.tsx.
VARIABLES
  vizMounted,      \* a WaveformVisualizer is mounted (the recorder view)
  vizIsRecording,  \* its isRecording prop
  vizAnalyser,     \* its analyser prop: 0 for null
  vizCleanup,      \* the live effect of the last commit returned a cleanup
  animationRef,    \* animationRef.current: 0 for null
  pendingFrames,   \* requestAnimationFrame callbacks not yet run or cancelled
  nFrames,         \* requestAnimationFrame ids handed out
  drawnStopped     \* draw() has run while not recording or unmounted

vizVars == << vizMounted, vizIsRecording, vizAnalyser, vizCleanup,
             animationRef, pendingFrames, nFrames, drawnStopped >>

\* The LoginForm and the initialisation of the AuthProvider.
VARIABLES
  dbConnected,     \* AuthProvider state, from checkDatabaseConnection()
  authInit,        \* initializeAuth: "check", "session", "done"
  formIsLogin,     \* LoginForm state isLogin
  formLoading,     \* LoginForm state isLoading
  formError,       \* LoginForm state error: "none" for null
  submit,          \* the login or register call the mounted LoginForm
                   \* awaits: "idle", "login", "register"
  goneSubmits,     \* number of such calls awaited by LoginForms that are gone
  attempt          \* the last handleSubmit: the fields it read and how it
                   \* went

logVars == << dbConnected, authInit, formIsLogin, formLoading, formError,
             submit, goneSubmits, attempt >>

\* The local preview of the recorder view (App.tsx).
VARIABLES
  isPlaying,        \* App state
  audioElementRef,  \* audioElementRef.current: 0 for null, 1 for the element
  playClicks        \* clicks on the play button so far, modulo 2

prevVars == << isPlaying, audioElementRef, playClicks >>

vars == << recVars, dashVars, perVars, modalVars, vizVars, logVars, prevVars >>

ItemIds == 1..MaxItems

\* An id for which no Audio element has been created yet.
NoMedia ==
  [ state |-> "none",        \* none, paused, playing, ended
    endedQueued |-> FALSE ]  \* an 'ended' event is queued and not yet fired

DashInit ==
  /\ currentlyPlaying = 0
  /\ audioElements = {}
  /\ media = [id \in ItemIds |-> NoMedia]
  /\ orphans = [id \in ItemIds |-> 0]

\* App renders the Dashboard for a user when showRecorder is false
\* (App.tsx:117 and 183-186).
DashboardShown == user # 0 /\ ~showRecorder

\* The logout button is on the Dashboard (Dashboard.tsx:84), which App
\* renders when showRecorder is false (App.tsx:183-186).
LogoutShown == DashboardShown

\* The Dashboard is unmounted: its state is lost and the next one starts from
\* its useState defaults.  Nothing pauses its Audio elements, so those that
\* play go on playing, and the 'ended' listeners of its elements set the
\* state of a component that is gone.
DashboardUnmounted ==
  /\ \A id \in ItemIds : media[id].state = "playing" => orphans[id] < MaxOrphans
  /\ orphans' = [id \in ItemIds |->
                   IF media[id].state = "playing" THEN orphans[id] + 1
                   ELSE orphans[id]]
  /\ currentlyPlaying' = 0
  /\ audioElements' = {}
  /\ media' = [id \in ItemIds |-> NoMedia]

SessionIds == 1..MaxSessions

NoBlob == [session |-> 0, chunks |-> << >>]

\* A startRecording call that has not been made yet.
NoSession ==
  [ rec      |-> "none",     \* none, requesting, recording, stopping, stopped,
                             \* denied, setupFailed
    tracks   |-> "none",     \* none, live, stopped, ended
    timer    |-> "none",     \* none, live, cleared
    start    |-> 0,          \* startTime of the interval closure
    stopElapsed |-> -1,      \* Date.now() - startTime when stopRecording
                             \* stopped the recorder, -1 before
    endedByDevice |-> FALSE ]

\* Milliseconds in a second, the divisor of the elapsed-time expression.
MsPerSecond == 1000

\* recordingTime and the durations are JavaScript numbers of seconds with a
\* fraction.  The model keeps them in fixed point, as whole thousandths of a
\* second: 1500 stands for 1.5 and 1 for 0.001.
Thousandths == 1000

\* (Date.now() - startTime) / 1000: t and startTime are Date.now() readings
\* in whole milliseconds, the quotient is a number of seconds and is exact
\* in thousandths.
Elapsed(t, startTime) == ((t - startTime) * Thousandths) \div MsPerSecond

\* The period of the interval of startRecording, in milliseconds.  The clock
\* of the model is read at multiples of it.
TimerPeriod == 100

\* Sum of the chunk sizes: the byte length of new Blob(chunks).
RECURSIVE ByteLength(_)
ByteLength(chunks) ==
  IF chunks = << >> THEN 0
  ELSE Head(chunks).size + ByteLength(Tail(chunks))

\* Sizes in bytes of the data a recorder hands to ondataavailable.
ChunkSizes == {0, 1}

\* startTime is a local of startRecording kept alive by the interval closure:
\* once the interval is cleared and the recorder has left "recording" nothing
\* reads it, and the model forgets it.
Release(ss) ==
  [s \in DOMAIN ss |->
     IF ss[s].timer # "live" /\ ss[s].rec # "recording"
     THEN [ss[s] EXCEPT !.start = 0] ELSE ss[s]]

\* clearInterval(timerRef.current) guarded by if (timerRef.current).
ClearInterval(ss, ref) ==
  IF ref # 0 /\ ss[ref].timer = "live"
  THEN [ss EXCEPT ![ref].timer = "cleared"]
  ELSE ss

\* The cleanup of the [audioUrl] effect, run when a commit changes audioUrl
\* from old to new: it reads timerRef.current as it is at the commit and the
\* audioUrl of the render that created it.
CleanupSessions(ss, ref, old, new) ==
  IF old # new THEN ClearInterval(ss, ref) ELSE ss

CleanupUrls(us, old, new) ==
  IF old # new /\ old # 0 THEN us \ {old} ELSE us

RecInit ==
  /\ isRecording = FALSE
  /\ audioBlob = NoBlob
  /\ audioUrl = 0
  /\ showRecorder = FALSE
  /\ showSaveModal = FALSE
  /\ recordingTime = 0
  /\ mediaRecorderRef = 0
  /\ audioChunksRef = << >>
  /\ timerRef = 0
  /\ sessions = [s \in SessionIds |-> NoSession]
  /\ nSessions = 0
  /\ now = 0
  /\ urls = {}
  /\ nUrls = 0
  /\ artifacts = << >>
  /\ alerts = 0

ModalInit ==
  /\ modalOpen = FALSE
  /\ duration = 0
  /\ title = << >>
  /\ isSaving = FALSE
  /\ error = "none"
  /\ nModals = 0

\* App returns the LoginForm when user is null (App.tsx:117-124); with a user
\* it renders the recorder view or the Dashboard and, under either,
\* {showSaveModal && audioBlob && <SaveRecordingModal .../>} (App.tsx:189).
ModalShown == user # 0 /\ showSaveModal /\ audioBlob # NoBlob

\* useState(`Recording ${new Date().toLocaleString()}`): a title that is not
\* blank.
DefaultTitle == << "a" >>

\* The commit of a step renders App anew: the modal is mounted with its
\* useState defaults when App did not render it before and renders it now,
\* it is unmounted and its state lost when App renders it no longer, and an
\* instance that stays gets duration={recordingTime} of the new render; str,
\* saving and err are the state the step leaves in an instance that stays.
ModalCommit(str, saving, err) ==
  IF ModalShown'
  THEN /\ modalOpen' = TRUE
       /\ duration' = recordingTime'
       /\ IF modalOpen
          THEN /\ title' = str
               /\ isSaving' = saving
               /\ error' = err
               /\ nModals' = nModals
          ELSE /\ nModals < MaxModals
               /\ nModals' = nModals + 1
               /\ title' = DefaultTitle
               /\ isSaving' = FALSE
               /\ error' = "none"
  ELSE /\ modalOpen' = FALSE
       /\ duration' = 0
       /\ title' = << >>
       /\ isSaving' = FALSE
       /\ error' = "none"
       /\ nModals' = nModals

\* The commit of a step that sets no state of the modal.
ModalKept == ModalCommit(title, isSaving, error)

\* The tables and the bucket of the backend with its clock.
tables == << profiles, rows, objects, nRows >>

\* A step that is none of the auth context's: its state, its calls and the
\* backend stay as they are.
ContextKept ==
  /\ lastOp' = "other"
  /\ UNCHANGED << user, recordings, authUid, tables, loads, saves, saveResult,
                  dels, logouts >>

\* App renders the recorder view for a user when showRecorder is true
\* (App.tsx:117 and 128-181).
RecorderShown == user # 0 /\ showRecorder

(* The record button (App.tsx:142-155) calls startRecording when isRecording *)
(* is false and stopRecording when it is true; it is rendered in the         *)
(* recorder view only.                                                       *)

\* startRecording up to its await of getUserMedia.
startRecording ==
  /\ RecorderShown
  /\ ~isRecording
  /\ nSessions < MaxSessions
  /\ nSessions' = nSessions + 1
  /\ sessions' = [sessions EXCEPT ![nSessions + 1].rec = "requesting"]
  /\ UNCHANGED << isRecording, audioBlob, audioUrl, showRecorder, showSaveModal,
                  recordingTime, mediaRecorderRef, audioChunksRef, timerRef,
                  now, urls, nUrls, artifacts, alerts >>
  /\ ContextKept
  /\ UNCHANGED << modalVars, dashVars >>

\* getUserMedia resolved: the rest of startRecording's try block.
micGranted(s) ==
  /\ sessions[s].rec = "requesting"
  /\ mediaRecorderRef' = s
  /\ audioChunksRef' = << >>
  /\ audioBlob' = NoBlob
  /\ audioUrl' = 0
  /\ isRecording' = TRUE
  /\ timerRef' = s
  /\ LET started == [sessions EXCEPT ![s] =
                       [ rec |-> "recording", tracks |-> "live",
                         timer |-> "live", start |-> now,
                         stopElapsed |-> -1,
                         endedByDevice |-> FALSE ]]
     IN sessions' = Release(CleanupSessions(started, s, audioUrl, 0))
  /\ urls' = CleanupUrls(urls, audioUrl, 0)
  /\ UNCHANGED << showRecorder, showSaveModal, recordingTime, nSessions, now,
                  nUrls, artifacts, alerts >>
  /\ ContextKept
  /\ UNCHANGED dashVars
  /\ ModalKept

\* A rejection handled as if recording had begun.
micDenied_MarksRecording(s) ==
  /\ sessions[s].rec = "requesting"
  /\ sessions' = [sessions EXCEPT ![s].rec = "denied"]
  /\ alerts' = alerts + 1
  /\ isRecording' = TRUE
  /\ UNCHANGED << audioBlob, audioUrl, showRecorder, showSaveModal,
                  recordingTime, mediaRecorderRef, audioChunksRef, timerRef,
                  nSessions, now, urls, nUrls, artifacts >>
  /\ ContextKept
  /\ UNCHANGED << modalVars, dashVars >>

\* getUserMedia rejected: the catch block.
micDenied(s) ==
  /\ sessions[s].rec = "requesting"
  /\ sessions' = [sessions EXCEPT ![s].rec = "denied"]
  /\ alerts' = alerts + 1
  /\ UNCHANGED << isRecording, audioBlob, audioUrl, showRecorder, showSaveModal,
                  recordingTime, mediaRecorderRef, audioChunksRef, timerRef,
                  nSessions, now, urls, nUrls, artifacts >>
  /\ ContextKept
  /\ UNCHANGED << modalVars, dashVars >>

\* getUserMedia resolved and a later statement of the try block threw:
\* new MediaRecorder (line 51), before any assignment; new AudioContext and
\* the analyser set-up (lines 54-58), after mediaRecorderRef was assigned; or
\* mediaRecorder.start() (line 81), after the refs and the state were reset.
\* The stream obtained stays live.
ThrowPoints == {"recorder", "audioContext", "start"}

setupThrows(s, at) ==
  /\ sessions[s].rec = "requesting"
  /\ alerts' = alerts + 1
  /\ mediaRecorderRef' = IF at = "recorder" THEN mediaRecorderRef ELSE s
  /\ audioChunksRef' = IF at = "start" THEN << >> ELSE audioChunksRef
  /\ audioBlob' = IF at = "start" THEN NoBlob ELSE audioBlob
  /\ audioUrl' = IF at = "start" THEN 0 ELSE audioUrl
  /\ LET failed == [sessions EXCEPT ![s].rec = "setupFailed",
                                    ![s].tracks = "live"]
     IN sessions' = Release(CleanupSessions(failed, timerRef, audioUrl, audioUrl'))
  /\ urls' = CleanupUrls(urls, audioUrl, audioUrl')
  /\ UNCHANGED << isRecording, showRecorder, showSaveModal, recordingTime,
                  timerRef, nSessions, now, nUrls, artifacts >>
  /\ ContextKept
  /\ UNCHANGED dashVars
  /\ ModalKept

\* stopRecording.  On a recorder that is not recording MediaRecorder.stop()
\* either throws InvalidStateError, which ends the handler before it changes
\* anything, or returns without doing anything, after which the handler goes
\* on: which of the two depends on the browser (throws).
stopRecording(throws) ==
  /\ RecorderShown
  /\ isRecording
  /\ IF mediaRecorderRef # 0 /\ sessions[mediaRecorderRef].rec = "recording"
     THEN /\ isRecording' = FALSE
          /\ sessions' = Release(ClearInterval(
               [sessions EXCEPT ![mediaRecorderRef].rec = "stopping",
                                ![mediaRecorderRef].stopElapsed =
                                  Elapsed(now, sessions[mediaRecorderRef].start)],
               timerRef))
     ELSE IF mediaRecorderRef # 0 /\ ~throws
     THEN /\ isRecording' = FALSE
          /\ sessions' = Release(ClearInterval(sessions, timerRef))
     ELSE UNCHANGED << isRecording, sessions >>
  /\ UNCHANGED << audioBlob, audioUrl, showRecorder, showSaveModal,
                  recordingTime, mediaRecorderRef, audioChunksRef, timerRef,
                  nSessions, now, urls, nUrls, artifacts, alerts >>
  /\ ContextKept
  /\ UNCHANGED << modalVars, dashVars >>

\* ondataavailable: a chunk is kept when event.data.size > 0.
PushChunk(chunks, s, size) ==
  IF size > 0 THEN Append(chunks, [session |-> s, size |-> size]) ELSE chunks

\* new Blob(audioChunksRef.current, ...) in onstop.
NewBlob(s, chunks) == [session |-> s, chunks |-> chunks]

\* mediaRecorder.onstop with the chunks buffered so far: the blob, its object
\* URL, the release of the stream's tracks and the opening of the save modal.
onstop(s, chunks) ==
  /\ LET blob == NewBlob(s, chunks)
         url == nUrls + 1
         stopped == [sessions EXCEPT
                       ![s].rec = "stopped",
                       ![s].tracks = IF @ = "live" THEN "stopped" ELSE @]
     IN /\ audioChunksRef' = chunks
        /\ audioBlob' = blob
        /\ audioUrl' = url
        /\ nUrls' = url
        /\ urls' = CleanupUrls(urls \cup {url}, audioUrl, url)
        /\ sessions' = Release(CleanupSessions(stopped, timerRef, audioUrl, url))
        /\ artifacts' = Append(artifacts,
                               [session |-> s, url |-> url, blob |-> blob])
  /\ showSaveModal' = TRUE
  /\ UNCHANGED << isRecording, showRecorder, recordingTime, mediaRecorderRef,
                  timerRef, nSessions, now, alerts >>
  /\ ContextKept
  /\ UNCHANGED dashVars
  /\ ModalKept

\* A stop task that builds no artifact when nothing was buffered.
recorderStopTask_SkipEmpty(s, size) ==
  /\ sessions[s].rec = "stopping"
  /\ IF PushChunk(audioChunksRef, s, size) = << >>
     THEN /\ sessions' = [sessions EXCEPT
                            ![s].rec = "stopped",
                            ![s].tracks = IF @ = "live" THEN "stopped" ELSE @]
          /\ UNCHANGED << isRecording, audioBlob, audioUrl, showRecorder,
                          showSaveModal, recordingTime, mediaRecorderRef,
                          audioChunksRef, timerRef, nSessions, now, urls,
                          nUrls, artifacts, alerts >>
          /\ ContextKept
          /\ UNCHANGED << modalVars, dashVars >>
     ELSE onstop(s, PushChunk(audioChunksRef, s, size))

\* The task a MediaRecorder queues when it is stopped: dataavailable with the
\* data gathered (size bytes), then stop.
recorderStopTask(s, size) ==
  /\ sessions[s].rec = "stopping"
  /\ onstop(s, PushChunk(audioChunksRef, s, size))

\* The input stream ends while the recorder records (device unplugged,
\* permission revoked): the recorder stops by itself and queues its stop task.
\* The code registers no handler for it.
streamEnded(s) ==
  /\ sessions[s].rec = "recording"
  /\ sessions[s].tracks = "live"
  /\ sessions' = Release([sessions EXCEPT ![s].rec = "stopping",
                                          ![s].tracks = "ended",
                                          ![s].endedByDevice = TRUE])
  /\ UNCHANGED << isRecording, audioBlob, audioUrl, showRecorder, showSaveModal,
                  recordingTime, mediaRecorderRef, audioChunksRef, timerRef,
                  nSessions, now, urls, nUrls, artifacts, alerts >>
  /\ ContextKept
  /\ UNCHANGED << modalVars, dashVars >>

\* One run of the setInterval callback of session s: setRecordingTime, which
\* a mounted modal gets as its duration prop.
timerTick(s) ==
  /\ sessions[s].timer = "live"
  /\ recordingTime' = Elapsed(now, sessions[s].start)
  /\ UNCHANGED << isRecording, audioBlob, audioUrl, showRecorder, showSaveModal,
                  mediaRecorderRef, audioChunksRef, timerRef, sessions,
                  nSessions, now, urls, nUrls, artifacts, alerts >>
  /\ ContextKept
  /\ UNCHANGED dashVars
  /\ ModalKept

\* Date.now() moves on.  It is read by the interval callback as a difference
\* from its startTime (line 86) and by saveRecording for the file name
\* (AuthContext.tsx:214); the database stamps created_at from the same clock.
advanceClock ==
  /\ now < MaxTime * TimerPeriod
  /\ now' = now + TimerPeriod
  /\ UNCHANGED << isRecording, audioBlob, audioUrl, showRecorder, showSaveModal,
                  recordingTime, mediaRecorderRef, audioChunksRef, timerRef,
                  sessions, nSessions, urls, nUrls, artifacts, alerts >>
  /\ ContextKept
  /\ UNCHANGED << modalVars, dashVars >>

\* onStartRecording of the Dashboard, from its "New Recording" button:
\* setShowRecorder(true).
openRecorder ==
  /\ DashboardShown
  /\ showRecorder' = TRUE
  /\ DashboardUnmounted
  /\ UNCHANGED << isRecording, audioBlob, audioUrl, showSaveModal,
                  recordingTime, mediaRecorderRef, audioChunksRef, timerRef,
                  sessions, nSessions, now, urls, nUrls, artifacts, alerts >>
  /\ ContextKept
  /\ UNCHANGED modalVars

\* "Back to Dashboard": setShowRecorder(false).
backToDashboard ==
  /\ RecorderShown
  /\ showRecorder' = FALSE
  /\ UNCHANGED << isRecording, audioBlob, audioUrl, showSaveModal,
                  recordingTime, mediaRecorderRef, audioChunksRef, timerRef,
                  sessions, nSessions, now, urls, nUrls, artifacts, alerts >>
  /\ ContextKept
  /\ UNCHANGED << modalVars, dashVars >>

\* onClose of App, from the X and Cancel buttons of the modal, which are
\* enabled also while it saves: setShowSaveModal(false).
onClose ==
  /\ modalOpen
  /\ showSaveModal' = FALSE
  /\ UNCHANGED << isRecording, audioBlob, audioUrl, showRecorder,
                  recordingTime, mediaRecorderRef, audioChunksRef, timerRef,
                  sessions, nSessions, now, urls, nUrls, artifacts, alerts >>
  /\ ContextKept
  /\ UNCHANGED dashVars
  /\ ModalKept

\* onSaved of App, called by a handleSave whose saveRecording resolved.
onSaved ==
  /\ showSaveModal' = FALSE
  /\ showRecorder' = FALSE
  /\ audioBlob' = NoBlob
  /\ audioUrl' = 0
  /\ recordingTime' = 0
  /\ sessions' = Release(CleanupSessions(sessions, timerRef, audioUrl, 0))
  /\ urls' = CleanupUrls(urls, audioUrl, 0)
  /\ UNCHANGED << isRecording, mediaRecorderRef, audioChunksRef, timerRef,
                  nSessions, now, nUrls, artifacts, alerts >>

\* The recorder, the stream and the interval of the capture sessions.
DeviceNext ==
  \/ \E s \in SessionIds : micGranted(s)
  \/ \E s \in SessionIds : micDenied(s)
  \/ \E s \in SessionIds, at \in ThrowPoints : setupThrows(s, at)
  \/ \E s \in SessionIds, size \in ChunkSizes : recorderStopTask(s, size)
  \/ \E s \in SessionIds : streamEnded(s)
  \/ \E s \in SessionIds : timerTick(s)
  \/ advanceClock

\* The capture session: the record button, the Dashboard's way to it and the
\* modal's Cancel.
CaptureNext ==
  \/ startRecording
  \/ \E throws \in BOOLEAN : stopRecording(throws)
  \/ DeviceNext
  \/ openRecorder
  \/ onClose

(* ------------------- recordings list (Dashboard.tsx) ------------------- *)
\* HTMLMediaElement.pause().
Pause(m, id) ==
  IF m[id].state = "playing" THEN [m EXCEPT ![id].state = "paused"] ELSE m

\* HTMLMediaElement.play(): playback starts (from the beginning when the
\* element had ended) unless the returned promise rejects (ok = FALSE),
\* which the code does not look at.
\* The list renders one entry, with its play button, per recording.
Listed(id) == \E i \in DOMAIN recordings : recordings[i].id = id

Play(m, id, ok) ==
  IF ok THEN [m EXCEPT ![id].state = "playing"]
  ELSE IF m[id].state = "none" THEN [m EXCEPT ![id].state = "paused"] ELSE m

\* playRecording(id, url).
playRecording(id, ok) ==
  /\ DashboardShown
  /\ Listed(id)
  /\ LET paused == IF currentlyPlaying # 0 /\ currentlyPlaying \in audioElements
                   THEN Pause(media, currentlyPlaying) ELSE media
     IN IF currentlyPlaying = id
        THEN /\ media' = paused
             /\ currentlyPlaying' = 0
             /\ UNCHANGED audioElements
        ELSE /\ media' = Play(paused, id, ok)
             /\ audioElements' = audioElements \cup {id}
             /\ currentlyPlaying' = id
  /\ UNCHANGED << orphans, recVars, perVars, modalVars >>

\* Playback of an element reaches the end of its media: the element stops
\* and the browser queues a task that fires 'ended'.
playbackEnds(id) ==
  /\ media[id].state = "playing"
  /\ media' = [media EXCEPT ![id].state = "ended", ![id].endedQueued = TRUE]
  /\ UNCHANGED << currentlyPlaying, audioElements, orphans >>
  /\ UNCHANGED << recVars, perVars, modalVars >>

\* Playback of an element of an unmounted Dashboard reaches its end; its
\* 'ended' listener calls the setter of a component that is gone.
orphanEnds(id) ==
  /\ orphans[id] > 0
  /\ orphans' = [orphans EXCEPT ![id] = orphans[id] - 1]
  /\ UNCHANGED << currentlyPlaying, audioElements, media >>
  /\ UNCHANGED << recVars, perVars, modalVars >>

\* An 'ended' listener that leaves the currently-playing state alone.
endedEvent_KeepsMark(id) ==
  /\ media[id].endedQueued
  /\ media' = [media EXCEPT ![id].endedQueued = FALSE]
  /\ UNCHANGED << currentlyPlaying, audioElements, orphans >>
  /\ UNCHANGED << recVars, perVars, modalVars >>

\* The queued 'ended' event fires: the listener added at creation runs.
endedEvent(id) ==
  /\ media[id].endedQueued
  /\ media' = [media EXCEPT ![id].endedQueued = FALSE]
  /\ currentlyPlaying' = 0
  /\ UNCHANGED << audioElements, orphans, recVars, perVars, modalVars >>

(* ------- persistence (AuthContext.tsx, SaveRecordingModal.tsx) --------- *)
Users == {1}

\* Values typed into the title input: empty, blank, and titles with and
\* without white space around them.
Titles == { << >>, << " " >>, << " ", " " >>, << "a" >>, << " ", "a", " " >> }

\* String.prototype.trim(): leading and trailing white space removed.
RECURSIVE TrimLeft(_)
TrimLeft(str) ==
  IF str # << >> /\ Head(str) = " " THEN TrimLeft(Tail(str)) ELSE str

RECURSIVE TrimRight(_)
TrimRight(str) ==
  IF str # << >> /\ str[Len(str)] = " "
  THEN TrimRight(SubSeq(str, 1, Len(str) - 1)) ELSE str

Trim(str) == TrimRight(TrimLeft(str))

\* `${user.id}/${Date.now()}.wav`: the path segments of the storage key.
FileName(uid, t) == << uid, t >>

\* getPublicUrl(fileName): the bucket's public prefix, then the key.
PublicUrl(key) == << "public", "recordings" >> \o key

\* recording.audio_url.split('/').pop(), and the key deleteRecording removes.
LastSegment(url) == url[Len(url)]

\* A remove that names the file without the owner's folder.
RemoveKey_NoFolder(uid, url) == << LastSegment(url) >>

\* `${user.id}/${fileName}`: the key handed to storage.remove.
RemoveKey(uid, url) == << uid, LastSegment(url) >>

\* The key a public URL of the bucket points at.
KeyOf(url) == SubSeq(url, 3, Len(url))

\* Row level security: a session reads, writes and deletes its own rows,
\* and the objects under its own folder.
Visible(r) == authUid # 0 /\ r.user_id = authUid
MayWriteKey(key) == authUid # 0 /\ key[1] = authUid

RECURSIVE Perms(_)
Perms(S) ==
  IF S = {} THEN {<< >>}
  ELSE UNION {{<< x >> \o q : q \in Perms(S \ {x})} : x \in S}

\* A query that returns the rows in any order.
NewestFirst_AnyOrder(S) == Perms(S)

\* .order('created_at', { ascending: false }): any order of the rows that is
\* newest first (rows of equal created_at come in either order).
NewestFirst(S) ==
  {q \in Perms(S) : \A i \in 1..(Len(q) - 1) : q[i].created_at >= q[i + 1].created_at}

\* .from('recordings').select('*').eq('user_id', uid)
SelectRecordings(uid) == {r \in rows : r.user_id = uid /\ Visible(r)}

\* The map of a row to a Recording (lines 135-142 and 250-257).
ToRecording(r) ==
  [ id |-> r.id, userId |-> r.user_id, title |-> r.title,
    date |-> r.created_at, audioUrl |-> r.audio_url, duration |-> r.duration ]

MapRecordings(q) == [i \in DOMAIN q |-> ToRecording(q[i])]

Idle == [pc |-> "idle"]

\* The calls of one operation that run at the same time are kept in slots; a
\* new call takes the first free one.
CallIds == 1..MaxCalls

Busy(calls) == Cardinality({i \in CallIds : calls[i].pc # "idle"})

\* The calls of the auth context that have not settled yet: loadUserData,
\* saveRecording, deleteRecording, logout, and login or register.
Running ==
  Busy(loads) + Busy(saves) + Busy(dels) + logouts + goneSubmits
    + (IF submit = "idle" THEN 0 ELSE 1)

\* One more call may start.
CanCall == Running < MaxCalls

FreeSlot(calls) ==
  CHOOSE i \in CallIds :
    /\ calls[i].pc = "idle"
    /\ \A j \in 1..(i - 1) : calls[j].pc # "idle"


PerInit ==
  /\ user = 0
  /\ recordings = << >>
  /\ authUid = 0
  /\ profiles = {}
  /\ rows = {}
  /\ objects = {}
  /\ nRows = 0
  /\ loads = [i \in CallIds |-> Idle]
  /\ saves = [i \in CallIds |-> Idle]
  /\ saveResult = "none"
  /\ dels = [i \in CallIds |-> Idle]
  /\ logouts = 0
  /\ lastOp = "other"

\* loadUserData(authUser) up to its first await: the profile query is issued.
StartLoad(u) ==
  loads' = [loads EXCEPT ![FreeSlot(loads)] = [pc |-> "profile", uid |-> u]]

\* A SIGNED_IN event: a session of u exists and the handler of
\* onAuthStateChange calls loadUserData(u), whatever else is running.
signedIn(u) ==
  /\ CanCall
  /\ authUid' = u
  /\ StartLoad(u)
  /\ lastOp' = "other"
  /\ UNCHANGED << user, recordings, tables, saves, saveResult, dels, logouts >>
  /\ UNCHANGED << recVars, dashVars, modalVars >>

\* .from('users').select(...).eq('id', authUser.id).single() under the read
\* policy: the row of the session's own user, else no row (PGRST116).
ProfileFound(uid) == authUid = uid /\ uid \in profiles

\* The insert of a profile under the insert policy and the primary key.
MayInsertProfile(uid) == authUid = uid /\ uid \notin profiles

\* loadUserData throws into its catch block, which awaits signOut(); why is
\* "refused" when the database refused the insert of the profile and
\* "failed" for any other error.
LoadCaught(l, why) ==
  loads' = [loads EXCEPT ![l] = [pc |-> "signOut", uid |-> loads[l].uid,
                                 why |-> why]]

\* loadUserData after its profile query: setUser and the recordings query
\* when the row was found, the insert of a profile when there is no row
\* (PGRST116), the catch block on another error (ok = FALSE).  The commit of
\* setUser renders App for the user, with the modal when App holds
\* showSaveModal and an audioBlob.
loadProfile(l, ok) ==
  /\ loads[l].pc = "profile"
  /\ IF ~ok
     THEN LoadCaught(l, "failed") /\ UNCHANGED user
     ELSE IF ProfileFound(loads[l].uid)
     THEN /\ user' = loads[l].uid
          /\ loads' = [loads EXCEPT ![l].pc = "recordings"]
     ELSE /\ loads' = [loads EXCEPT ![l].pc = "insert"]
          /\ UNCHANGED user
  /\ lastOp' = "other"
  /\ UNCHANGED << recordings, authUid, tables, saves, saveResult, dels,
                  logouts >>
  /\ UNCHANGED << recVars, dashVars >>
  /\ ModalKept

\* loadUserData after the insert of the profile: setUser(newUser), or the
\* catch block when the database refused the insert or the request failed
\* (ok = FALSE).
loadInserted(l, ok) ==
  /\ loads[l].pc = "insert"
  /\ IF ~ok
     THEN LoadCaught(l, "failed") /\ UNCHANGED << user, profiles >>
     ELSE IF MayInsertProfile(loads[l].uid)
     THEN /\ profiles' = profiles \cup {loads[l].uid}
          /\ user' = loads[l].uid
          /\ loads' = [loads EXCEPT ![l] = Idle]
     ELSE LoadCaught(l, "refused") /\ UNCHANGED << user, profiles >>
  /\ lastOp' = "other"
  /\ UNCHANGED << recordings, authUid, rows, objects, nRows, saves,
                  saveResult, dels, logouts >>
  /\ UNCHANGED << recVars, dashVars >>
  /\ ModalKept

\* loadUserData after its recordings query: setRecordings, or the catch block.
loadRecordings(l, ok) ==
  /\ loads[l].pc = "recordings"
  /\ IF ok
     THEN /\ \E q \in NewestFirst(SelectRecordings(loads[l].uid)) :
               recordings' = MapRecordings(q)
          /\ loads' = [loads EXCEPT ![l] = Idle]
     ELSE LoadCaught(l, "failed") /\ UNCHANGED recordings
  /\ lastOp' = "other"
  /\ UNCHANGED << user, authUid, tables, saves, saveResult, dels, logouts >>
  /\ UNCHANGED << recVars, dashVars, modalVars >>

\* setUser(null) and setRecordings([]): App returns the LoginForm, so the
\* Dashboard and a mounted modal are unmounted; App itself stays mounted and
\* keeps its state and refs.
UserCleared ==
  /\ user' = 0
  /\ recordings' = << >>
  /\ DashboardUnmounted
  /\ UNCHANGED recVars
  /\ ModalKept

\* The catch block of loadUserData after its await of signOut(), whose
\* result it does not look at: the session is over when signOut succeeded
\* (ok); setUser(null), setRecordings([]).
loadSignedOut(l, ok) ==
  /\ loads[l].pc = "signOut"
  /\ authUid' = IF ok THEN 0 ELSE authUid
  /\ loads' = [loads EXCEPT ![l] = Idle]
  /\ lastOp' = IF loads[l].why = "refused" THEN "loadRefused"
               ELSE "loadFailed"
  /\ UNCHANGED << tables, saves, saveResult, dels, logouts >>
  /\ UserCleared

\* logout() from the Dashboard's logout button, up to its await of signOut().
logout ==
  /\ user # 0
  /\ CanCall
  /\ logouts' = logouts + 1
  /\ lastOp' = "other"
  /\ UNCHANGED << user, recordings, authUid, tables, loads, saves,
                  saveResult, dels >>
  /\ UNCHANGED << recVars, dashVars, modalVars >>

\* logout after signOut().  When it succeeded the session is over and logout
\* and the SIGNED_OUT handler do setUser(null), setRecordings([]); when it
\* returned an error logout throws it.  The button's onClick drops the
\* promise.
logoutSettled(ok) ==
  /\ logouts > 0
  /\ logouts' = logouts - 1
  /\ UNCHANGED << tables, loads, saves, saveResult, dels >>
  /\ IF ok
     THEN /\ authUid' = 0
          /\ lastOp' = "other"
          /\ UserCleared
     ELSE /\ lastOp' = "logoutRejected"
          /\ UNCHANGED << authUid, user, recordings >>
          /\ UNCHANGED << recVars, dashVars, modalVars >>

\* onChange of the title input: setTitle(e.target.value).
setTitle(str) ==
  /\ modalOpen
  /\ title # str
  /\ title' = str
  /\ ContextKept
  /\ UNCHANGED << modalOpen, duration, isSaving, error, nModals >>
  /\ UNCHANGED << recVars, dashVars >>

\* The handleSave that awaits the call belongs to the modal that is mounted.
\* inst is the number of the instance whose handleSave made the call, 0 for
\* a call that is not a modal's.
AwaitedByMounted(call) == modalOpen /\ call.inst = nModals

\* A saveRecording call settles: its promise resolves ("ok") or rejects.  The
\* handleSave awaiting it runs onSaved() of App when it resolved, and setError
\* and setIsSaving(false) when it rejected; the setters of an instance that
\* is gone do nothing.
Settle(i, outcome) ==
  /\ saveResult' = outcome
  /\ saves' = [saves EXCEPT ![i] = Idle]
  /\ UNCHANGED dashVars
  /\ IF outcome = "ok" /\ saves[i].inst # 0
     THEN onSaved /\ ModalKept
     ELSE /\ UNCHANGED recVars
          /\ IF outcome # "ok" /\ AwaitedByMounted(saves[i])
             THEN /\ error' = outcome
                  /\ isSaving' = FALSE
                  /\ UNCHANGED << modalOpen, duration, title, nModals >>
             ELSE UNCHANGED modalVars

\* saveRecording not looking at user before it starts.
SaveCall_NoUserCheck(str, d, inst, session) ==
  /\ saves' = [saves EXCEPT ![FreeSlot(saves)] =
                 [ pc |-> "upload", uid |-> user, title |-> str,
                   duration |-> d, fileName |-> FileName(user, now),
                   inst |-> inst, session |-> session ]]
  /\ UNCHANGED saveResult

\* saveRecording(title, audioBlob, duration) up to its first await: with no
\* user it throws at once, else it names the file and issues the upload.
\* session is the capture session of audioBlob, 0 for another blob.
SaveCall(str, d, inst, session) ==
  IF user = 0
  THEN /\ saveResult' = "User not authenticated"
       /\ UNCHANGED saves
  ELSE /\ saves' = [saves EXCEPT ![FreeSlot(saves)] =
                      [ pc |-> "upload", uid |-> user, title |-> str,
                        duration |-> d, fileName |-> FileName(user, now),
                        inst |-> inst, session |-> session ]]
       /\ UNCHANGED saveResult

\* A consumer of the context calls saveRecording, whatever else is running.
saveRecording(str, d) ==
  /\ CanCall
  /\ SaveCall(str, d, 0, 0)
  /\ lastOp' = "saveRecording"
  /\ UNCHANGED << user, recordings, authUid, tables, loads, dels, logouts >>
  /\ UNCHANGED << recVars, dashVars, modalVars >>

\* A title test that takes white space for a title.
TitleMissing_NoTrim(str) == str = << >>

\* if (!title.trim()) of handleSave.
TitleMissing(str) == Trim(str) = << >>

\* handleSave up to the first await inside saveRecording, with the title and
\* the audioBlob and duration props of the current render.  The save button
\* is disabled while isSaving.  A blank title ends it with an error; when
\* saveRecording throws at once the catch and finally run in the same step.
handleSave ==
  /\ modalOpen
  /\ ~isSaving
  /\ TitleMissing(title) \/ CanCall
  /\ lastOp' = "handleSave"
  /\ IF TitleMissing(title)
     THEN /\ error' = "Please enter a title for your recording"
          /\ UNCHANGED << saves, saveResult, isSaving >>
     ELSE /\ SaveCall(title, duration, nModals, audioBlob.session)
          /\ IF saves' # saves
             THEN error' = "none" /\ isSaving' = TRUE
             ELSE error' = saveResult' /\ isSaving' = FALSE
  /\ UNCHANGED << user, recordings, authUid, tables, loads, dels, logouts >>
  /\ UNCHANGED << modalOpen, duration, title, nModals >>
  /\ UNCHANGED << recVars, dashVars >>

\* saveRecording after the upload (upsert: false): the metadata insert is
\* issued, or the upload error is thrown.
saveUploaded(i, ok) ==
  /\ saves[i].pc = "upload"
  /\ lastOp' = "other"
  /\ UNCHANGED << user, recordings, authUid, profiles, rows, nRows,
                  loads, dels, logouts >>
  /\ IF ok /\ MayWriteKey(saves[i].fileName) /\ saves[i].fileName \notin objects
     THEN /\ objects' = objects \cup {saves[i].fileName}
          /\ saves' = [saves EXCEPT ![i].pc = "insert"]
          /\ UNCHANGED saveResult
          /\ UNCHANGED << recVars, dashVars, modalVars >>
     ELSE /\ UNCHANGED objects
          /\ Settle(i, "uploadError")

\* saveRecording after the insert: the reload query is issued, or the
\* insert error is thrown.  The table takes any number of rows; the insert
\* that would pass MaxRows is left out.
saveInserted(i, ok) ==
  /\ saves[i].pc = "insert"
  /\ lastOp' = "other"
  /\ UNCHANGED << user, recordings, authUid, profiles, objects, loads,
                  dels, logouts >>
  /\ (ok /\ authUid = saves[i].uid) => nRows < MaxRows
  /\ IF ok /\ authUid = saves[i].uid
     THEN /\ rows' = rows \cup {[ id |-> nRows + 1, user_id |-> saves[i].uid,
                                  title |-> saves[i].title,
                                  audio_url |-> PublicUrl(saves[i].fileName),
                                  duration |-> saves[i].duration,
                                  created_at |-> now ]}
          /\ nRows' = nRows + 1
          /\ saves' = [saves EXCEPT ![i].pc = "select"]
          /\ UNCHANGED saveResult
          /\ UNCHANGED << recVars, dashVars, modalVars >>
     ELSE /\ UNCHANGED << rows, nRows >>
          /\ Settle(i, "insertError")

\* saveRecording after the reload: setRecordings and the promise resolves,
\* or the query error is thrown.
saveReloaded(i, ok) ==
  /\ saves[i].pc = "select"
  /\ lastOp' = "other"
  /\ UNCHANGED << user, authUid, tables, loads, dels, logouts >>
  /\ IF ok
     THEN /\ \E q \in NewestFirst(SelectRecordings(saves[i].uid)) :
               recordings' = MapRecordings(q)
          /\ Settle(i, "ok")
     ELSE /\ UNCHANGED recordings
          /\ Settle(i, "selectError")

\* deleteRecording(id) from the delete button of a listed recording, up to
\* its first await: nothing without a user, else the row is fetched.
deleteRecording(id) ==
  /\ user = 0 \/ CanCall
  /\ \E i \in DOMAIN recordings : recordings[i].id = id
  /\ lastOp' = "other"
  /\ IF user = 0
     THEN UNCHANGED dels
     ELSE dels' = [dels EXCEPT ![FreeSlot(dels)] =
                     [pc |-> "fetch", id |-> id, uid |-> user]]
  /\ UNCHANGED << user, recordings, authUid, tables, loads, saves,
                  saveResult, logouts >>
  /\ UNCHANGED << recVars, dashVars, modalVars >>

\* The catch block of deleteRecording: the error is thrown to the caller,
\* the onClick of the delete button, which drops the promise.
DeleteFailed(i) ==
  /\ dels' = [dels EXCEPT ![i] = Idle]
  /\ lastOp' = "deleteRejected"

\* deleteRecording after .select('audio_url').eq('id', id).single(): the
\* object is removed from storage, or the fetch error is thrown.
deleteFetched(i, ok) ==
  /\ dels[i].pc = "fetch"
  /\ IF ok /\ \E r \in rows : r.id = dels[i].id /\ Visible(r)
     THEN /\ \E r \in rows :
               /\ r.id = dels[i].id
               /\ dels' = [dels EXCEPT ![i] =
                             [ pc |-> "remove", id |-> dels[i].id,
                               uid |-> dels[i].uid,
                               key |-> RemoveKey(dels[i].uid, r.audio_url) ]]
          /\ lastOp' = "other"
     ELSE DeleteFailed(i)
  /\ UNCHANGED << user, recordings, authUid, tables, loads, saves,
                  saveResult, logouts >>
  /\ UNCHANGED << recVars, dashVars, modalVars >>

\* deleteRecording after storage.remove([key]): the row is deleted, or the
\* storage error is thrown.
deleteRemoved(i, ok) ==
  /\ dels[i].pc = "remove"
  /\ IF ok
     THEN /\ objects' = IF MayWriteKey(dels[i].key)
                        THEN objects \ {dels[i].key} ELSE objects
          /\ dels' = [dels EXCEPT ![i] =
                        [pc |-> "delete", id |-> dels[i].id,
                         uid |-> dels[i].uid]]
          /\ lastOp' = "other"
     ELSE /\ DeleteFailed(i)
          /\ UNCHANGED objects
  /\ UNCHANGED << user, recordings, authUid, profiles, rows, nRows,
                  loads, saves, saveResult, logouts >>
  /\ UNCHANGED << recVars, dashVars, modalVars >>

\* The message the Dashboard holds for a failed operation of its buttons: its
\* state is searchTerm, currentlyPlaying and audioElements, it has no error
\* state and renders no message.
DashboardMessage == "none"

\* setRecordings(prev => prev.filter(rec => rec.id !== id))
FilterOut(q, id) == SelectSeq(q, LAMBDA rec : rec.id # id)

\* deleteRecording after .delete().eq('id', id): the list is filtered, or
\* the database error is thrown.
deleteDeleted(i, ok) ==
  /\ dels[i].pc = "delete"
  /\ IF ok
     THEN /\ rows' = {r \in rows : ~(r.id = dels[i].id /\ Visible(r))}
          /\ recordings' = FilterOut(recordings, dels[i].id)
          /\ dels' = [dels EXCEPT ![i] = Idle]
          /\ lastOp' = "other"
     ELSE /\ DeleteFailed(i)
          /\ UNCHANGED << rows, recordings >>
  /\ UNCHANGED << user, authUid, profiles, objects, nRows, loads,
                  saves, saveResult, logouts >>
  /\ UNCHANGED << recVars, dashVars, modalVars >>

\* Titles and durations a caller of saveRecording passes.
ApiTitles == { << " ", "a", " " >> }
ApiDurations == {2}

\* The recordings earlier visits of a user have stored, one per period.
StoredRows ==
  { [ id |-> i, user_id |-> u, title |-> << "a" >>,
      audio_url |-> PublicUrl(FileName(u, 0 - i * TimerPeriod)),
      duration |-> Thousandths,
      created_at |-> 0 - i * TimerPeriod ] : i \in ItemIds, u \in Users }

\* The page is opened by a user who has been here before: the backend holds
\* the profile and the recordings, the client holds nothing.
StoredInit ==
  /\ user = 0
  /\ recordings = << >>
  /\ authUid = 0
  /\ profiles = Users
  /\ rows = StoredRows
  /\ objects = {KeyOf(r.audio_url) : r \in StoredRows}
  /\ nRows = MaxItems
  /\ loads = [i \in CallIds |-> Idle]
  /\ saves = [i \in CallIds |-> Idle]
  /\ saveResult = "none"
  /\ dels = [i \in CallIds |-> Idle]
  /\ logouts = 0
  /\ lastOp = "other"

\* loadUserData from the SIGNED_IN event to its end.
LoadNext ==
  \/ \E u \in Users : signedIn(u)
  \/ \E l \in CallIds, ok \in BOOLEAN : loadProfile(l, ok)
  \/ \E l \in CallIds, ok \in BOOLEAN : loadInserted(l, ok)
  \/ \E l \in CallIds, ok \in BOOLEAN : loadRecordings(l, ok)
  \/ \E l \in CallIds, ok \in BOOLEAN : loadSignedOut(l, ok)

\* A sign-in against a backend that answers: the SIGNED_IN event and the
\* loadUserData call it starts.
SignInNext ==
  \/ \E u \in Users : signedIn(u)
  \/ \E l \in CallIds : loadProfile(l, TRUE)
  \/ \E l \in CallIds : loadInserted(l, TRUE)
  \/ \E l \in CallIds : loadRecordings(l, TRUE)

\* The first sign-in of a user, who has no session and no profile yet,
\* against a backend that answers.
SessionNext ==
  \/ \E u \in Users : authUid = 0 /\ signedIn(u)
  \/ \E l \in CallIds : loadProfile(l, TRUE)
  \/ \E l \in CallIds : loadInserted(l, TRUE)

\* The continuations of the saveRecording calls.
SaveNext ==
  \/ \E i \in CallIds, ok \in BOOLEAN : saveUploaded(i, ok)
  \/ \E i \in CallIds, ok \in BOOLEAN : saveInserted(i, ok)
  \/ \E i \in CallIds, ok \in BOOLEAN : saveReloaded(i, ok)

\* The capture session and the saves started from the modal.
\* The continuations of saveRecording against a backend whose storage may
\* refuse the upload and whose table answers the insert and the reload.
SaveAnswered ==
  \/ \E i \in CallIds, ok \in BOOLEAN : saveUploaded(i, ok)
  \/ \E i \in CallIds : saveInserted(i, TRUE)
  \/ \E i \in CallIds : saveReloaded(i, TRUE)

RecNext ==
  \/ SessionNext
  \/ CaptureNext
  \/ backToDashboard
  \/ handleSave
  \/ SaveAnswered

\* A recording with a microphone that is granted, from the Dashboard to the
\* artifact.
RecordNext ==
  \/ openRecorder
  \/ startRecording
  \/ \E s \in SessionIds : micGranted(s)
  \/ \E throws \in BOOLEAN : stopRecording(throws)
  \/ \E s \in SessionIds, size \in ChunkSizes : recorderStopTask(s, size)
  \/ \E s \in SessionIds : timerTick(s)
  \/ advanceClock

\* The modal in front of the context: the recording that opens it, typing,
\* save clicks and the save itself.
ModalNext ==
  \/ SessionNext
  \/ RecordNext
  \/ \E str \in Titles : setTitle(str)
  \/ onClose
  \/ handleSave
  \/ SaveAnswered

\* The operations of the context against the backend.
PerNext ==
  \/ advanceClock
  \/ LoadNext
  \/ logout
  \/ \E ok \in BOOLEAN : logoutSettled(ok)
  \/ \E str \in ApiTitles, d \in ApiDurations : saveRecording(str, d)
  \/ SaveNext
  \/ \E id \in ItemIds : deleteRecording(id)
  \/ \E i \in CallIds, ok \in BOOLEAN : deleteFetched(i, ok)
  \/ \E i \in CallIds, ok \in BOOLEAN : deleteRemoved(i, ok)
  \/ \E i \in CallIds, ok \in BOOLEAN : deleteDeleted(i, ok)


(* --------------- live waveform (WaveformVisualizer.tsx) ---------------- *)

\* The analyser nodes App hands down: analyserRef.current is null until the
\* first session is set up and is replaced by every later one.
Analysers == 0..2

VizInit ==
  /\ vizMounted = FALSE
  /\ vizIsRecording = FALSE
  /\ vizAnalyser = 0
  /\ vizCleanup = FALSE
  /\ animationRef = 0
  /\ pendingFrames = {}
  /\ nFrames = 0
  /\ drawnStopped = FALSE

\* A cleanup that leaves the scheduled callback alone.
CancelFrame_Never(pending, ref) == pending

\* if (animationRef.current) cancelAnimationFrame(animationRef.current)
CancelFrame(pending, ref) == IF ref # 0 THEN pending \ {ref} ELSE pending

\* The cleanup of the live effect of the previous commit, if it returned one.
VizCleanup(pending) ==
  IF vizCleanup THEN CancelFrame(pending, animationRef) ELSE pending

\* The live effect body for the props of a commit.  The canvas is rendered,
\* and canvasRef.current set, exactly when isRecording; ctx tells whether
\* getContext('2d') returned a context.  When nothing makes it return early
\* it calls draw(), which requests a frame, and returns a cleanup.
VizEffect(pending, ref, rec, an, ctx) ==
  /\ IF rec /\ an # 0 /\ ctx
     THEN /\ nFrames < MaxFrames
          /\ nFrames' = nFrames + 1
          /\ animationRef' = nFrames + 1
          /\ pendingFrames' = pending \cup {nFrames + 1}
          /\ vizCleanup' = TRUE
     ELSE /\ nFrames' = nFrames
          /\ animationRef' = ref
          /\ pendingFrames' = pending
          /\ vizCleanup' = FALSE
  /\ vizIsRecording' = rec
  /\ vizAnalyser' = an

\* The props App can pass: isRecording is only set after analyserRef.
VizProps(rec, an) == rec => an # 0

\* The recorder view is shown: a WaveformVisualizer is mounted with fresh
\* refs and its live effect runs.
vizMount(rec, an, ctx) ==
  /\ ~vizMounted
  /\ VizProps(rec, an)
  /\ vizMounted' = TRUE
  /\ VizEffect(pendingFrames, 0, rec, an, ctx)
  /\ UNCHANGED drawnStopped

\* App commits with another isRecording or analyser: the cleanup of the
\* previous live effect runs, then the effect runs for the new props.
vizUpdate(rec, an, ctx) ==
  /\ vizMounted
  /\ VizProps(rec, an)
  /\ << rec, an >> # << vizIsRecording, vizAnalyser >>
  /\ VizEffect(VizCleanup(pendingFrames), animationRef, rec, an, ctx)
  /\ UNCHANGED << vizMounted, drawnStopped >>

\* The recorder view is left: the cleanup runs and the instance is dropped.
vizUnmount ==
  /\ vizMounted
  /\ vizMounted' = FALSE
  /\ pendingFrames' = VizCleanup(pendingFrames)
  /\ vizCleanup' = FALSE
  /\ animationRef' = 0
  /\ UNCHANGED << vizIsRecording, vizAnalyser, nFrames, drawnStopped >>

\* The browser runs a scheduled callback: draw() requests the next frame,
\* stores its id in animationRef.current and paints.
vizFrame(id) ==
  /\ id \in pendingFrames
  /\ nFrames < MaxFrames
  /\ nFrames' = nFrames + 1
  /\ animationRef' = nFrames + 1
  /\ pendingFrames' = (pendingFrames \ {id}) \cup {nFrames + 1}
  /\ drawnStopped' = (drawnStopped \/ ~vizMounted \/ ~vizIsRecording)
  /\ UNCHANGED << vizMounted, vizIsRecording, vizAnalyser, vizCleanup >>

VizNext ==
  \/ \E rec \in BOOLEAN, an \in Analysers, ctx \in BOOLEAN :
       vizMount(rec, an, ctx)
  \/ \E rec \in BOOLEAN, an \in Analysers, ctx \in BOOLEAN :
       vizUpdate(rec, an, ctx)
  \/ vizUnmount
  \/ \E id \in 1..MaxFrames : vizFrame(id)

(* ------------- sign-in (LoginForm, AuthContext.tsx) -------------------- *)

\* No handleSubmit has run yet.  result is "refused" when handleSubmit
\* returned before the auth call, "pending" while the call is awaited,
\* "resolved" or "rejected" after it settled; onSuccess tells whether
\* onSuccess() was called.
NoAttempt ==
  [ isLogin |-> TRUE, username |-> << >>, email |-> << >>,
    password |-> << >>, result |-> "none", onSuccess |-> FALSE ]

LogInit ==
  /\ dbConnected = FALSE
  /\ authInit = "check"
  /\ formIsLogin = TRUE
  /\ formLoading = FALSE
  /\ formError = "none"
  /\ submit = "idle"
  /\ goneSubmits = 0
  /\ attempt = NoAttempt

\* recVars and perVars without the variables the sign-in actions write.
recRest == << isRecording, audioBlob, audioUrl, showSaveModal, recordingTime,
             mediaRecorderRef, audioChunksRef, timerRef, sessions, nSessions,
             now, urls, nUrls, artifacts, alerts >>

perRest == << user, recordings, tables, saves, saveResult, dels, logouts,
             lastOp >>

\* App returns the LoginForm while user is null or undefined.
LoginFormShown == user = 0

\* The submit button: disabled={isLoading || !dbConnected}.
SubmitEnabled == ~formLoading /\ dbConnected

\* A LoginForm that is mounted anew has its initial state.
FormReset ==
  /\ formIsLogin' = TRUE
  /\ formLoading' = FALSE
  /\ formError' = "none"

\* initializeAuth after checkDatabaseConnection(), which returns false when its
\* query fails: setDbConnected, then getSession is awaited.
initChecked(ok) ==
  /\ authInit = "check"
  /\ dbConnected' = ok
  /\ authInit' = "session"
  /\ UNCHANGED << formIsLogin, formLoading, formError, submit, goneSubmits,
                  attempt, perVars, recVars, dashVars, modalVars >>

\* initializeAuth after getSession(): loadUserData for the user of the
\* session (u), else setUser(null).  The session is the stored one, or the
\* one of a sign-in that ended before getSession() answered.
initSession(u) ==
  /\ authInit = "session"
  /\ authInit' = "done"
  /\ IF authUid = 0 THEN TRUE ELSE u = authUid
  /\ IF u # 0
     THEN CanCall /\ authUid' = u /\ StartLoad(u)
     ELSE UNCHANGED << authUid, loads >>
  /\ UNCHANGED << dbConnected, formIsLogin, formLoading, formError, submit,
                  goneSubmits, attempt, perRest, recVars, dashVars,
                  modalVars >>

\* [^\s@]: a character that is neither white space nor the at sign.
Plain(ch) == ch # " " /\ ch # "@"

\* /^[^\s@]+@[^\s@]+\.[^\s@]+$/.test(str): plain characters, an at sign,
\* then plain characters with a dot that has a character on either side.
EmailRegexTest(str) ==
  \E i \in 2..Len(str) :
    /\ str[i] = "@"
    /\ \A k \in (1..Len(str)) \ {i} : Plain(str[k])
    /\ \E j \in (i + 2)..(Len(str) - 1) : str[j] = "."

\* The shortest password validateForm accepts.
MinPasswordLength == 6

\* A validateForm that accepts a password of any length.
ValidateForm_AnyPassword(isLogin, username, email, password) ==
  IF Trim(email) = << >> THEN "Email is required"
  ELSE IF ~EmailRegexTest(Trim(email))
  THEN "Please enter a valid email address"
  ELSE IF password = << >> THEN "Password is required"
  ELSE IF ~isLogin /\ Trim(username) = << >> THEN "Username is required"
  ELSE "none"

\* validateForm(): "none" when it returns true, else the message it sets.
ValidateForm(isLogin, username, email, password) ==
  IF Trim(email) = << >> THEN "Email is required"
  ELSE IF ~EmailRegexTest(Trim(email))
  THEN "Please enter a valid email address"
  ELSE IF password = << >> THEN "Password is required"
  ELSE IF Len(password) < MinPasswordLength
  THEN "Password must be at least 6 characters long"
  ELSE IF ~isLogin /\ Trim(username) = << >> THEN "Username is required"
  ELSE "none"

\* Values of the fields when the form is submitted.  The username field is
\* rendered in register mode only and toggleMode empties the fields.
Emails ==
  { << >>, << " " >>, << "a", "@", "a" >>, << "a", "@", "a", ".", "a" >>,
    << " ", "a", "@", "a", ".", "a" >>, << "a", "@", "@", "a", ".", "a" >> }
Passwords ==
  { << >>, << "a", "a", "a", "a", "a" >>, << "a", "a", "a", "a", "a", "a" >> }
Usernames == { << >>, << " " >>, << "a" >> }

\* handleSubmit up to its await, from the submit button, with the values of
\* the fields.
handleSubmit(un, em, pw) ==
  /\ LoginFormShown
  /\ SubmitEnabled
  /\ submit = "idle"
  /\ formIsLogin => un = << >>
  /\ LET check == ValidateForm(formIsLogin, un, em, pw)
         fields == [ isLogin |-> formIsLogin, username |-> un, email |-> em,
                     password |-> pw, result |-> "refused",
                     onSuccess |-> FALSE ]
     IN IF ~dbConnected
        THEN /\ formError' =
                  "Unable to connect to the database. Please try again later."
             /\ attempt' = fields
             /\ UNCHANGED << formLoading, submit >>
        ELSE IF check # "none"
        THEN /\ formError' = check
             /\ attempt' = fields
             /\ UNCHANGED << formLoading, submit >>
        ELSE /\ CanCall
             /\ formError' = "none"
             /\ formLoading' = TRUE
             /\ submit' = IF formIsLogin THEN "login" ELSE "register"
             /\ attempt' = [fields EXCEPT !.result = "pending"]
  /\ UNCHANGED << dbConnected, authInit, formIsLogin, goneSubmits, perVars,
                  recVars, dashVars, modalVars >>

\* login() or register() resolved: a session of u exists and the SIGNED_IN
\* handler calls loadUserData(u); then onSuccess() of App does
\* setShowRecorder(true).
SignedInBy(u) ==
  /\ authUid' = u
  /\ StartLoad(u)
  /\ showRecorder' = TRUE
  /\ DashboardUnmounted

\* handleSubmit after login() or register() settled.  When it resolved a
\* session of u exists, the SIGNED_IN handler calls loadUserData(u), and
\* onSuccess() does setShowRecorder(true); when it rejected the message is
\* set.  finally: setIsLoading(false).
submitSettled(u, ok) ==
  /\ submit # "idle"
  /\ submit' = "idle"
  /\ formLoading' = FALSE
  /\ IF ok
     THEN /\ SignedInBy(u)
          /\ attempt' = [attempt EXCEPT !.result = "resolved",
                                        !.onSuccess = TRUE]
          /\ UNCHANGED formError
     ELSE /\ formError' = IF submit = "login" THEN "Login failed"
                          ELSE "Registration failed"
          /\ attempt' = [attempt EXCEPT !.result = "rejected"]
          /\ UNCHANGED << authUid, loads, showRecorder, dashVars >>
  /\ UNCHANGED << dbConnected, authInit, formIsLogin, goneSubmits, perRest,
                  recRest, modalVars >>

\* A handleSubmit of a LoginForm that is gone, after its login() or
\* register() settled: onSuccess() still runs, the setters of the form do
\* nothing.
goneSubmitSettled(u, ok) ==
  /\ goneSubmits > 0
  /\ goneSubmits' = goneSubmits - 1
  /\ IF ok
     THEN SignedInBy(u)
     ELSE UNCHANGED << authUid, loads, showRecorder, dashVars >>
  /\ UNCHANGED << dbConnected, authInit, formIsLogin, formLoading, formError,
                  submit, attempt, perRest, recRest, modalVars >>

\* toggleMode, from the link under the form (disabled while isLoading).
toggleMode ==
  /\ LoginFormShown
  /\ ~formLoading
  /\ formIsLogin' = ~formIsLogin
  /\ formError' = "none"
  /\ UNCHANGED << dbConnected, authInit, formLoading, submit, goneSubmits,
                  attempt, perVars, recVars, dashVars, modalVars >>

\* A step of the context seen from the LoginForm: the form is unmounted when
\* the step sets a user, and with it the handleSubmit that awaits a call
\* loses its form; a form is mounted anew when the step clears the user.
FormCommit ==
  /\ IF (user = 0) # (user' = 0)
     THEN /\ FormReset
          /\ submit' = "idle"
          /\ goneSubmits' = IF submit = "idle" THEN goneSubmits
                            ELSE goneSubmits + 1
     ELSE UNCHANGED << formIsLogin, formLoading, formError, submit,
                       goneSubmits >>
  /\ UNCHANGED << dbConnected, authInit, attempt >>

LoginNext ==
  \/ \E ok \in BOOLEAN : initChecked(ok)
  \/ \E u \in {0} \cup Users : initSession(u)
  \/ \E un \in Usernames, em \in Emails, pw \in Passwords :
        handleSubmit(un, em, pw)
  \/ \E u \in Users, ok \in BOOLEAN : submitSettled(u, ok)
  \/ \E u \in Users, ok \in BOOLEAN : goneSubmitSettled(u, ok)
  \/ toggleMode
  \/ \E l \in CallIds, ok \in BOOLEAN :
        loadProfile(l, ok) /\ FormCommit
  \/ \E l \in CallIds, ok \in BOOLEAN :
        loadInserted(l, ok) /\ FormCommit
  \/ \E l \in CallIds, ok \in BOOLEAN :
        loadRecordings(l, ok) /\ FormCommit
  \/ \E l \in CallIds, ok \in BOOLEAN : loadSignedOut(l, ok) /\ FormCommit
  \/ LogoutShown /\ logout /\ FormCommit
  \/ openRecorder /\ UNCHANGED logVars
  \/ backToDashboard /\ UNCHANGED logVars
  \/ \E ok \in BOOLEAN : logoutSettled(ok) /\ FormCommit

(* ------------- the recorder across sign-out (App.tsx) ------------------ *)
\* App renders the recorder view and the Dashboard only with a user
\* (App.tsx:117-124); it stays mounted when user becomes null, so its state,
\* refs, recorder, stream and interval stay as they are.

\* The handlers of the recorder view and of the Dashboard, the callbacks of
\* the recorder, the stream and the interval, and the auth context.
LeaveNext ==
  \/ openRecorder
  \/ backToDashboard
  \/ startRecording
  \/ \E throws \in BOOLEAN : stopRecording(throws)
  \/ \E s \in SessionIds : micGranted(s)
  \/ \E s \in SessionIds : micDenied(s)
  \/ \E s \in SessionIds, size \in ChunkSizes : recorderStopTask(s, size)
  \/ \E s \in SessionIds : timerTick(s)
  \/ advanceClock
  \/ LoadNext
  \/ LogoutShown /\ logout
  \/ \E ok \in BOOLEAN : logoutSettled(ok)

(* ------------------- local preview (App.tsx) --------------------------- *)

PrevInit ==
  /\ isPlaying = FALSE
  /\ audioElementRef = 0
  /\ playClicks = 0

\* {audioElementRef.current && <audio ref={audioElementRef} .../>}: the
\* element is rendered when the ref already holds one.
AudioRendered(ref) == ref # 0

\* audioElementRef.current after a commit: React sets the ref to the element
\* it rendered and to null when it rendered none.
RefAfterCommit(ref) == IF AudioRendered(ref) THEN 1 ELSE 0

\* togglePlayback, from the play button, which is rendered in the recorder
\* view when audioUrl is set.  isPlaying is written only past the guard.
togglePlayback ==
  /\ RecorderShown
  /\ audioUrl # 0
  /\ playClicks' = 1 - playClicks
  /\ isPlaying' = IF audioElementRef = 0 \/ audioUrl = 0 THEN isPlaying
                  ELSE ~isPlaying
  /\ audioElementRef' = RefAfterCommit(audioElementRef)
  /\ UNCHANGED recVars
  /\ ContextKept
  /\ UNCHANGED << modalVars, dashVars >>

PreviewNext ==
  \/ SessionNext /\ UNCHANGED prevVars
  \/ CaptureNext /\ UNCHANGED prevVars
  \/ togglePlayback

(* ------------- loadUserData and the profile (AuthContext.tsx) ---------- *)
\* The loadUserData calls of initializeAuth and of the SIGNED_IN events.
ProfNext ==
  \/ \E ok \in BOOLEAN : initChecked(ok)
  \/ \E u \in {0} \cup Users : initSession(u)
  \/ LoadNext /\ UNCHANGED logVars

(* ------------------- the Dashboard across views ------------------------ *)
\* The recordings list with what mounts and unmounts the Dashboard: sign-in,
\* logout, and the way to the recorder view and back.
DashNext ==
  \/ \E id \in ItemIds, ok \in BOOLEAN : playRecording(id, ok)
  \/ \E id \in ItemIds : playbackEnds(id)
  \/ \E id \in ItemIds : endedEvent(id)
  \/ \E id \in ItemIds : orphanEnds(id)
  \/ openRecorder
  \/ backToDashboard
  \/ SignInNext
  \/ LogoutShown /\ logout
  \/ \E ok \in BOOLEAN : logoutSettled(ok)

Init ==
  RecInit /\ DashInit /\ PerInit /\ ModalInit /\ VizInit /\ LogInit /\ PrevInit

\* The page is opened by a new user or by one whose recordings are stored.
ReturnInit ==
  /\ RecInit /\ DashInit /\ (PerInit \/ StoredInit) /\ ModalInit
  /\ VizInit /\ LogInit /\ PrevInit

Next ==
  (SessionNext \/ CaptureNext) /\ UNCHANGED << vizVars, logVars, prevVars >>

\* The capture session of a signed-in user: recorder, stream, timer and the
\* artifact.
Spec == Init /\ [][Next]_vars

\* The recordings list of the dashboard: play clicks and 'ended' events.
SpecDashboard ==
  ReturnInit /\ [][DashNext /\ UNCHANGED << vizVars, logVars, prevVars >>]_vars

\* The auth context against the backend.
SpecPersist ==
  Init /\ [][PerNext /\ UNCHANGED << vizVars, logVars, prevVars >>]_vars

\* The save modal in front of the auth context.
SpecModal ==
  Init /\ [][ModalNext /\ UNCHANGED << vizVars, logVars, prevVars >>]_vars

\* The capture session together with the saves started from the modal.
SpecApp ==
  Init /\ [][RecNext /\ UNCHANGED << vizVars, logVars, prevVars >>]_vars

\* The live waveform alone, under the commits App can make.
SpecVisualizer ==
  Init /\ [][VizNext /\ UNCHANGED << recVars, dashVars, perVars, modalVars,
                                     logVars, prevVars >>]_vars

\* Sign-in: the initialisation of the provider, the LoginForm and logout.
SpecLogin ==
  Init /\ [][LoginNext /\ UNCHANGED << vizVars, prevVars >>]_vars

\* The capture session with the play button of the recorder view.
SpecPreview ==
  Init /\ [][PreviewNext /\ UNCHANGED << vizVars, logVars >>]_vars

\* The capture session of a user who leaves the recorder view and signs out.
SpecLeave ==
  Init /\ [][LeaveNext /\ UNCHANGED << vizVars, logVars, prevVars >>]_vars

\* The loadUserData calls of initializeAuth and of the auth-change handler.
SpecProfile ==
  Init /\ [][ProfNext /\ UNCHANGED << vizVars, prevVars >>]_vars

(* ------------------------ claims: capture session ---------------------- *)

ArtifactsOf(s) == {i \in DOMAIN artifacts : artifacts[i].session = s}

\* C1: only one capture session is active at a time: whatever the order of
\* start clicks, permission grants and stop clicks, no two sessions have a
\* recording MediaRecorder at once.
C1_SingleActiveSession ==
  Cardinality({s \in SessionIds : sessions[s].rec = "recording"}) <= 1

\* C2: a session is stopped at most once and a stopped session has yielded
\* exactly one artifact (one run of onstop: one Blob, one object URL of its
\* own, at most one mounting of the save modal); a session whose start failed
\* has yielded none.
C2_StopYieldsOneArtifact ==
  /\ \A s \in SessionIds :
       /\ Cardinality(ArtifactsOf(s)) <= 1
       /\ sessions[s].rec = "stopped" <=> Cardinality(ArtifactsOf(s)) = 1
       /\ sessions[s].rec \in {"denied", "setupFailed"} => ArtifactsOf(s) = {}
  /\ \A i, j \in DOMAIN artifacts :
       artifacts[i].url = artifacts[j].url => i = j
  /\ nUrls = Len(artifacts)
  /\ nModals <= Len(artifacts)

\* Two sessions, one stopped with its artifact and one whose start failed.
C2_Witness ==
  \E s, f \in SessionIds :
    /\ sessions[s].rec = "stopped"
    /\ artifacts # << >>
    /\ sessions[f].rec \in {"denied", "setupFailed"}

\* C3: once a stop command has stopped a session and its onstop has run, the
\* artifact holds the buffered chunks in arrival order, no track of the
\* session is live, its interval is cancelled, and while no recording is
\* shown no interval is left to change recordingTime.
C3_StopReleasesEverything ==
  \A s \in SessionIds :
    (sessions[s].rec = "stopped" /\ sessions[s].stopElapsed >= 0) =>
      /\ \A i \in ArtifactsOf(s) :
           \A k \in DOMAIN artifacts[i].blob.chunks :
             artifacts[i].blob.chunks[k].session = s
      /\ sessions[s].tracks # "live"
      /\ sessions[s].timer # "live"
      /\ ~isRecording => \A t \in SessionIds : sessions[t].timer # "live"

\* C4: a session whose input stream ended unexpectedly yields no artifact.
C4_DeviceFailureYieldsNoArtifact ==
  \A s \in SessionIds : sessions[s].endedByDevice => ArtifactsOf(s) = {}

\* C5: the duration the save modal hands to saveRecording for the artifact of
\* a session is the elapsed time at the moment stopRecording was invoked.
C5_DurationIsElapsedAtStop ==
  \A s \in SessionIds :
    (modalOpen /\ audioBlob.session = s /\ sessions[s].stopElapsed >= 0) =>
      duration = sessions[s].stopElapsed

(* ------------------------ claims: recordings list ---------------------- *)

PlayingItems == {id \in ItemIds : media[id].state = "playing"}

\* C6: after any sequence of play clicks and 'ended' events at most one
\* item's audio element is playing, and it is the item marked
\* currentlyPlaying.
C6_OnlyMarkedItemPlays ==
  /\ Cardinality(PlayingItems) <= 1
  /\ \A id \in PlayingItems : currentlyPlaying = id

(* -------------------------- claims: persistence ------------------------ *)

\* No saveRecording call and no deleteRecording call is running.
NoSave == \A i \in CallIds : saves[i].pc = "idle"
NoDelete == \A i \in CallIds : dels[i].pc = "idle"

\* C7: when no saveRecording and no deleteRecording call is running, every
\* row of the recordings table references an object that exists in storage.
C7_RowsReferenceObjects ==
  (NoSave /\ NoDelete) =>
    \A r \in rows : KeyOf(r.audio_url) \in objects

\* C8: when deleteRecording's removal of the storage object fails, the
\* metadata row and the entry of the visible list are removed all the same.
C8_DeleteSurvivesStorageFailure ==
  [][ \A d \in CallIds :
        (dels[d].pc = "remove" /\ dels'[d].pc = "idle") =>
          /\ \A r \in rows' : r.id # dels[d].id
          /\ \A i \in DOMAIN recordings' :
               recordings'[i].id # dels[d].id ]_vars

\* A title that is empty or made of white space only.
IsBlank(str) == \A i \in DOMAIN str : str[i] = " "

\* C9: handleSave on an empty or whitespace-only title sets the validation
\* error and does nothing else: no saveRecording call starts, the backend is
\* untouched, isSaving stays false and the modal stays open.
C9_BlankTitleRejected ==
  [][ (modalOpen /\ IsBlank(title) /\ lastOp' = "handleSave") =>
        /\ error' = "Please enter a title for your recording"
        /\ saves' = saves
        /\ saveResult' = saveResult
        /\ rows' = rows
        /\ objects' = objects
        /\ recordings' = recordings
        /\ isSaving' = FALSE
        /\ modalOpen' ]_vars

\* handleSave has just rejected a whitespace-only title of a signed-in user.
C9_Witness ==
  /\ lastOp = "handleSave"
  /\ modalOpen
  /\ user # 0
  /\ IsBlank(title)
  /\ title # << >>
  /\ error = "Please enter a title for your recording"
  /\ ~isSaving
  /\ NoSave

\* C10: saveRecording called with no user fails with 'User not
\* authenticated' before any upload, insert or select is issued, and leaves
\* the recordings list unchanged.
C10_UnauthenticatedSaveRejected ==
  [][ (user = 0 /\ lastOp' = "saveRecording") =>
        /\ saveResult' = "User not authenticated"
        /\ saves' = saves
        /\ rows' = rows
        /\ objects' = objects
        /\ recordings' = recordings ]_vars

\* saveRecording has just been refused for want of a user, with rows in the
\* table that a query could have loaded.
C10_Witness ==
  /\ lastOp = "saveRecording"
  /\ user = 0
  /\ saveResult = "User not authenticated"
  /\ NoSave
  /\ rows # {}

\* The entry of a recordings list for what a saveRecording call was given.
IsSavedEntry(rec, s) ==
  /\ rec.userId = s.uid
  /\ rec.title = s.title
  /\ rec.duration = s.duration
  /\ KeyOf(rec.audioUrl) = s.fileName
  /\ rec.audioUrl[1] = "public"

\* C11 as stated: whenever saveRecording succeeds the list is newest first,
\* holds an entry whose title, duration and audio reference are what was
\* saved, and still holds every entry it held before.
C11_RoundTripAlways ==
  [][ \A c \in CallIds :
        ( /\ saves[c].pc = "select"
          /\ saves'[c].pc = "idle"
          /\ saveResult' = "ok" ) =>
          /\ \A i, j \in DOMAIN recordings' :
               i < j => recordings'[i].date >= recordings'[j].date
          /\ \E i \in DOMAIN recordings' :
               IsSavedEntry(recordings'[i], saves[c])
          /\ \A i \in DOMAIN recordings :
               \E j \in DOMAIN recordings' :
                 recordings'[j] = recordings[i] ]_vars

\* C11, amended: when saveRecording succeeds while its caller is still the
\* signed-in user, the list is the refreshed list, newest first: it holds an
\* entry for every row of the owner, the saved one among them unless a delete
\* took its row meanwhile, and every entry it held before.
C11_SaveRoundTrip ==
  [][ \A c \in CallIds :
        ( /\ saves[c].pc = "select"
          /\ saves'[c].pc = "idle"
          /\ saveResult' = "ok"
          /\ user' = saves[c].uid ) =>
          /\ \A i, j \in DOMAIN recordings' :
               i < j => recordings'[i].date >= recordings'[j].date
          /\ \A r \in rows' :
               r.user_id = saves[c].uid =>
                 \E i \in DOMAIN recordings' :
                   /\ recordings'[i].id = r.id
                   /\ recordings'[i].title = r.title
                   /\ recordings'[i].duration = r.duration
                   /\ recordings'[i].audioUrl = r.audio_url
                   /\ recordings'[i].date = r.created_at
          /\ (\E r \in rows' : KeyOf(r.audio_url) = saves[c].fileName) =>
               \E i \in DOMAIN recordings' :
                 IsSavedEntry(recordings'[i], saves[c])
          /\ \A i \in DOMAIN recordings :
               \E j \in DOMAIN recordings' :
                 recordings'[j] = recordings[i] ]_vars

\* A second save has succeeded: the list holds the new entry in front of the
\* older one.
C11_Witness ==
  /\ saveResult = "ok"
  /\ NoSave
  /\ user # 0
  /\ Len(recordings) = 2
  /\ recordings[1].date > recordings[2].date
  /\ \A i \in DOMAIN recordings :
       /\ KeyOf(recordings[i].audioUrl) \in objects
       /\ \E r \in rows : r.id = recordings[i].id /\ r.title = recordings[i].title

\* Sessions whose getUserMedia request has been answered with a stream.
Granted(s) == sessions[s].rec \notin {"none", "requesting", "denied"}

\* C12: a rejected getUserMedia request is signalled with an alert and
\* changes nothing else: no recorder, timer or stream is kept for the
\* session, isRecording, audioBlob and audioUrl are as they were (isRecording
\* false unless another session set it), and the record button still starts
\* a request.
C12_DenialChangesNothing ==
  [][ \A s \in SessionIds :
        (sessions[s].rec = "requesting" /\ sessions'[s].rec = "denied") =>
          /\ alerts' = alerts + 1
          /\ UNCHANGED << isRecording, audioBlob, audioUrl, recordingTime,
                          mediaRecorderRef, audioChunksRef, timerRef,
                          showSaveModal, showRecorder, urls, artifacts >>
          /\ sessions'[s].timer = "none"
          /\ sessions'[s].tracks = "none"
          /\ mediaRecorderRef' # s
          /\ timerRef' # s
          /\ \A t \in SessionIds \ {s} : sessions'[t] = sessions[t]
          /\ (\A t \in SessionIds \ {s} : ~Granted(t)) =>
               (showRecorder' /\ ~isRecording' /\ audioBlob' = NoBlob) ]_vars

\* A request was denied and the next click started a session that records.
C12_Witness ==
  \E s, t \in SessionIds :
    /\ s < t
    /\ sessions[s].rec = "denied"
    /\ sessions[t].rec = "recording"
    /\ sessions[t].timer = "live"
    /\ alerts = 1
    /\ isRecording

\* C14: every artifact a session has produced has a byte length above zero,
\* and the duration shown with it is not negative.
C14_ArtifactNotEmpty ==
  /\ \A i \in DOMAIN artifacts : ByteLength(artifacts[i].blob.chunks) > 0
  /\ recordingTime >= 0

\* C15: a failed delete or logout started from the Dashboard leaves a
\* message in the state of the Dashboard.
C15_FailuresSurfaced ==
  lastOp \in {"deleteRejected", "logoutRejected"} => DashboardMessage # "none"

\* The saveRecording call c is awaited by the handleSave of the mounted modal.
AwaitedByModal(c) == saves[c].pc # "idle" /\ AwaitedByMounted(saves[c])

\* C16: whenever no call is in flight the control that starts it is enabled
\* again: the submit button of the LoginForm once the provider is
\* initialised, and the save button of the modal.
C16_FailureAllowsRetry ==
  /\ (LoginFormShown /\ authInit = "done" /\ submit = "idle") => SubmitEnabled
  /\ (modalOpen /\ \A c \in CallIds : ~AwaitedByModal(c)) => ~isSaving

\* C17: a click on the play button of the recorder view toggles isPlaying
\* and plays or pauses the audio element bound to the artifact URL.
C17_ToggleAlternates ==
  [][ playClicks' # playClicks =>
        (isPlaying' = ~isPlaying /\ audioElementRef # 0) ]_vars

\* C18: whatever closes the save modal, a successful save or a discard,
\* leaves audioBlob and audioUrl null and recordingTime 0; a save that fails
\* leaves the modal and the artifact as they were.
C18_ResetAfterSaveOrDiscard ==
  [][ /\ (showSaveModal /\ ~showSaveModal') =>
           (audioBlob' = NoBlob /\ audioUrl' = 0 /\ recordingTime' = 0)
      /\ ((\E c \in CallIds : saves[c].pc # "idle" /\ saves'[c].pc = "idle")
            /\ showSaveModal' = showSaveModal) =>
           UNCHANGED << audioBlob, audioUrl, recordingTime >> ]_vars

\* C19: when the 'ended' event of a list item's audio element fires, the
\* currently-playing indicator is cleared: after that step no item is marked,
\* and so the item whose audio has ended is not marked playing.
C19_EndedClearsIndicator ==
  [][ \A id \in ItemIds :
        (media[id].endedQueued /\ ~media'[id].endedQueued)
          => /\ currentlyPlaying' = 0
             /\ ~(media'[id].state = "ended" /\ currentlyPlaying' = id) ]_vars

\* An item played to its end, its 'ended' event has fired and nothing is
\* marked.
C19_Witness ==
  \E id \in ItemIds :
    /\ media[id].state = "ended"
    /\ ~media[id].endedQueued
    /\ currentlyPlaying = 0

\* C20: the key saveRecording uploads under and the key deleteRecording
\* removes both start with the id of the user who made the call, the row a
\* save inserts points at the key it uploaded, and the key deleteRecording
\* hands to remove is the key the row it fetched points at, which is the key
\* the save uploaded; the remove takes no other object.
C20_KeysUnderOwnerFolder ==
  [][ \A c \in CallIds :
        /\ (saves[c].pc = "idle" /\ saves'[c].pc = "upload")
            => (user # 0 /\ saves'[c].fileName[1] = user)
        /\ (saves[c].pc = "upload" /\ saves'[c].pc = "insert")
            => objects' = objects \cup {saves[c].fileName}
        /\ (saves[c].pc = "insert" /\ saves'[c].pc = "select")
            => \A r \in rows' \ rows :
                  /\ KeyOf(r.audio_url) = saves[c].fileName
                  /\ r.user_id = saves[c].fileName[1]
        /\ (dels[c].pc = "idle" /\ dels'[c].pc = "fetch")
            => (user # 0 /\ dels'[c].uid = user)
        /\ (dels[c].pc = "fetch" /\ dels'[c].pc = "remove")
            => /\ dels'[c].key[1] = dels[c].uid
               /\ \E r \in rows :
                     r.id = dels[c].id /\ dels'[c].key = KeyOf(r.audio_url)
        /\ (dels[c].pc = "remove" /\ dels'[c].pc = "delete")
            => /\ objects \ objects' \subseteq {dels[c].key}
               /\ objects' \subseteq objects ]_vars

\* deleteRecording has removed the object of a saved recording and is about
\* to delete its row.
C20_Witness ==
  \E d \in CallIds :
    /\ dels[d].pc = "delete"
    /\ \E r \in rows : r.id = dels[d].id /\ KeyOf(r.audio_url) \notin objects

\* C21: a session that begins to record has its interval timer scheduled:
\* the commit of startRecording does not cancel it, also when the artifact
\* of an earlier session was kept.
C21_TimerLiveWhileRecording ==
  [][ \A s \in SessionIds :
        (sessions[s].rec = "requesting" /\ sessions'[s].rec = "recording")
          => sessions'[s].timer = "live" ]_vars

\* C22: the recordings list of the context holds only recordings of the
\* current user, and it is empty whenever user is null.
C22_ListBelongsToUser ==
  /\ user = 0 => recordings = << >>
  /\ \A i \in DOMAIN recordings : recordings[i].userId = user

\* C23: when the user signs out from the Dashboard, no capture session is
\* left recording, no stream track is left live and no interval timer is
\* left scheduled.
C23_SignOutEndsCapture ==
  [][ (user # 0 /\ user' = 0 /\ ~showRecorder)
        => \A s \in SessionIds :
              /\ sessions'[s].rec # "recording"
              /\ sessions'[s].tracks # "live"
              /\ sessions'[s].timer # "live" ]_vars

\* C24: a save whose modal was dismissed and which settles after a newer
\* capture session has begun leaves audioBlob, audioUrl, recordingTime and
\* showRecorder as they are.
C24_LateSaveLeavesNewSession ==
  [][ \A c \in CallIds :
        ( /\ saves[c].pc # "idle"
          /\ saves'[c].pc = "idle"
          /\ saves[c].inst # 0
          /\ ~AwaitedByMounted(saves[c])
          /\ \E s \in SessionIds :
                /\ s > saves[c].session
                /\ sessions[s].rec \in {"recording", "stopping", "stopped"} )
        => UNCHANGED << audioBlob, audioUrl, recordingTime, showRecorder >> ]_vars

\* The call is in its catch block for an error other than a refused insert
\* of the profile.
OtherError(call) == call.pc = "signOut" /\ call.why = "failed"

\* C25: a loadUserData call that found no profile for the signed-in user and
\* met no other error ends with the profile in the table, the session kept
\* and user set; a call that met another error ends with the session signed
\* out and user and recordings cleared.
C25_ProfileCreatedOnce ==
  [][ \A l \in CallIds :
        /\ ( /\ loads[l].pc = "insert"
             /\ loads'[l].pc # "insert"
             /\ ~OtherError(loads'[l])
             /\ authUid = loads[l].uid )
           => /\ loads'[l].pc = "idle"
              /\ loads[l].uid \in profiles'
              /\ authUid' = loads[l].uid
              /\ user' = loads[l].uid
        /\ (OtherError(loads[l]) /\ loads'[l].pc = "idle")
           => (authUid' = 0 /\ user' = 0 /\ recordings' = << >>) ]_vars

\* The fields of a submission pass the checks the form is to make: an email
\* that is not blank and is well formed, a password of at least six
\* characters and, in register mode, a username that is not blank.
FieldsValid(a) ==
  /\ Trim(a.email) # << >>
  /\ EmailRegexTest(Trim(a.email))
  /\ Len(a.password) >= MinPasswordLength
  /\ ~a.isLogin => Trim(a.username) # << >>

\* C26: the form makes its auth call only with the database connected and
\* valid fields; otherwise it sets an error and makes no call; onSuccess is
\* called only when the pending call has resolved.
C26_AuthCallOnlyWhenValid ==
  [][ attempt' # attempt =>
        /\ attempt'.result = "pending"
             => /\ dbConnected
                /\ FieldsValid(attempt')
                /\ submit = "idle"
                /\ submit' = IF attempt'.isLogin THEN "login" ELSE "register"
        /\ attempt'.result = "refused"
             => /\ ~(dbConnected /\ FieldsValid(attempt'))
                /\ formError' # "none"
                /\ submit' = "idle"
                /\ UNCHANGED << authUid, showRecorder >>
        /\ attempt'.onSuccess
             => /\ attempt.result = "pending"
                /\ attempt'.result = "resolved"
                /\ authUid' # 0
        /\ attempt'.result = "rejected"
             => /\ ~attempt'.onSuccess
                /\ formError' # "none"
                /\ UNCHANGED << authUid, showRecorder >> ]_vars

\* A registration with valid fields has resolved and onSuccess was called.
C26_Witness ==
  /\ attempt.result = "resolved"
  /\ attempt.onSuccess
  /\ ~attempt.isLogin
  /\ showRecorder

(* -------------------------- claims: live waveform ---------------------- *)

\* C13: once isRecording is false or the visualizer is unmounted no
\* requestAnimationFrame callback of the draw loop is pending and draw() does
\* not run again; while the loop runs the one pending callback is the one
\* animationRef.current names.
C13_NoFrameAfterStop ==
  /\ (~vizMounted \/ ~vizIsRecording) => pendingFrames = {}
  /\ pendingFrames \subseteq {animationRef}
  /\ ~drawnStopped

\* The loop ran for some frames and was stopped by isRecording turning
\* false: the id last stored was cancelled.
C13_Witness ==
  /\ vizMounted
  /\ ~vizIsRecording
  /\ vizAnalyser # 0
  /\ animationRef >= 3
  /\ pendingFrames = {}
====
